---- MODULE Spec2Model ----
(***************************************************************************)
(* Model of cleave/client/mproc.py (RunnableLoop, TimedRunnableLoop,       *)
(* wrap_with_error_logging, RunnableLoopContext) and of                    *)
(* cleave/client/plant.py (BasePlant).                                     *)
(*                                                                         *)
(* Spec      : a RunnableLoopContext supervising NumLoops loops, each a    *)
(*             RunnableLoop or a TimedRunnableLoop, plus a party that may  *)
(*             call shutdown() on any loop at any moment.                  *)
(* PlantSpec : one BasePlant whose run() and shutdown() are called from    *)
(*             outside.                                                    *)
(* ShutdownSpec : RunnableLoops under a context next to a BasePlant, with  *)
(*             shutdown() called on either at any moment.                  *)
(* ChannelSpec : ActuationCommands reaching a PlantRuntime in any order,   *)
(*             after section 4.4 of the specification.                     *)
(* StateSpec : the force and position variables of InvPendulumState        *)
(*             (cleave/impl/inverted_pendulum.py) over its control steps.  *)
(*                                                                         *)
(* Time is counted in nanoseconds of the monotonic clock as seen by one    *)
(* timed loop; it advances only while that loop is inside _loop() or       *)
(* inside time.sleep(), and time.sleep() sleeps the time it is asked for.  *)
(* The origin of time.monotonic_ns() is arbitrary, so the clock is kept    *)
(* relative to the loop's last start stamp ti.                             *)
(***************************************************************************)
EXTENDS Integers, FiniteSets, Sequences, TLC

\* ---------------------------------------------------------------- bounds
NumLoops == 2
MaxTicks == 3
MaxPeriod == 2
MaxStepNs == 3
MaxPlantTicks == 3
MaxSeq == 7
MaxDeliveries == 4
MaxValue == 2
MaxStateTicks == 3

Loops == 1..NumLoops

VARIABLES
    \* RunnableLoop / TimedRunnableLoop, one entry per loop
    kind,          \* "plain" (RunnableLoop) or "timed" (TimedRunnableLoop)
    dt_ns,         \* self._dt_ns (0 for a plain loop)
    flag,          \* self._shutdown_flag.is_set()
    loop_pc,       \* position of the unit executing run()
    ticks,         \* _loop() invocations begun by the current run()
    since_ti,      \* time.monotonic_ns() - ti of TimedRunnableLoop.run
    gap,           \* ti minus the ti before it, while the step is running
    elapsed,       \* local dt of TimedRunnableLoop.run
    step_ns,       \* time the last _loop() invocation took
    sleep_req,     \* duration time.sleep is sleeping for
    slept,         \* time slept in the current iteration
    warned,        \* overrun warnings emitted in the current iteration
    shutdown_req,  \* shutdown() has been called on the loop
    logged,        \* exceptions logged by wrap_with_error_logging
    \* RunnableLoopContext
    submitted,     \* task handed to the pool by apply_async
    result,        \* AsyncResult of the task: "pending", "none", "exc"
    ctx_pc,        \* position of the caller of the context
    ctx_idx,       \* loop the for statement is at
    scope_exc,     \* the with body ended with an exception
    \* BasePlant
    plant_dt,      \* self.dt
    plant_pc,      \* position of the caller of run()
    shutdown_event,\* self._shutdown_event.is_set()
    step_cnt,      \* self.step_cnt
    cb_idx,        \* callbacks of _step completed in the current tick
    cb_log,        \* callbacks of _step invoked in the current tick, in order
    attempts,      \* ticks begun
    plant_failed,  \* a tick raised and the exception was caught in run()
    p_elapsed,     \* time.time() - ti at the end of the last tick
    p_sleep,       \* argument of the last time.sleep in run()
    \* PlantRuntime's side of the ControlChannel
    delivered,     \* sequence numbers of the commands delivered, in order
    accepted,      \* sequence numbers of the commands adopted, in order
    last_seq,      \* sequence number of the last accepted command
    adopted,       \* values of the last accepted command
    applied,       \* values actuate() applied last
    \* InvPendulumState
    force,         \* self.force, an ActuatorVariable
    since_write,   \* control steps begun since self.force was written
    force_last,    \* value last written to self.force
    position,      \* self.position, a SensorVariable
    pos_idle,      \* control steps begun since self.position was written
    pos_last,      \* value last written to self.position
    advanced,      \* advance() has run in the current control step
    read_force,    \* local force of advance()
    sv_tick        \* control steps begun

loopVars == <<kind, dt_ns, flag, loop_pc, ticks, since_ti, gap, elapsed,
              step_ns, sleep_req, slept, warned, shutdown_req, logged>>
ctxVars == <<submitted, result, ctx_pc, ctx_idx, scope_exc>>
plantVars == <<plant_dt, plant_pc, shutdown_event, step_cnt, cb_idx, cb_log,
               attempts, plant_failed, p_elapsed, p_sleep>>
chanVars == <<delivered, accepted, last_seq, adopted, applied>>
stateVars == <<force, since_write, force_last, position, pos_idle, pos_last,
               advanced, read_force, sv_tick>>
rtVars == <<chanVars, stateVars>>
vars == <<loopVars, ctxVars, plantVars, rtVars>>

Max(a, b) == IF a >= b THEN a ELSE b

\* positions in which the unit of a loop is inside run()
RunningPcs == {"init", "check", "step", "measured", "sleeping"}

\* ------------------------------------------------------------------ Init
\* RunnableLoop.__init__ / TimedRunnableLoop.__init__: the flag starts set
LoopInit ==
    /\ kind \in [Loops -> {"plain", "timed"}]
    /\ dt_ns \in [Loops -> 0..MaxPeriod]
    /\ \A i \in Loops : (kind[i] = "plain") <=> (dt_ns[i] = 0)
    /\ flag = [i \in Loops |-> TRUE]
    /\ loop_pc = [i \in Loops |-> "idle"]
    /\ ticks = [i \in Loops |-> 0]
    /\ since_ti = [i \in Loops |-> 0]
    /\ gap = [i \in Loops |-> 0]
    /\ elapsed = [i \in Loops |-> 0]
    /\ step_ns = [i \in Loops |-> 0]
    /\ sleep_req = [i \in Loops |-> 0]
    /\ slept = [i \in Loops |-> 0]
    /\ warned = [i \in Loops |-> 0]
    /\ shutdown_req = [i \in Loops |-> FALSE]
    /\ logged = [i \in Loops |-> 0]

\* RunnableLoopContext.__init__
CtxInit ==
    /\ submitted = [i \in Loops |-> FALSE]
    /\ result = [i \in Loops |-> "pending"]
    /\ ctx_pc = "new"
    /\ ctx_idx = 1
    /\ scope_exc = FALSE

\* BasePlant.__init__: step_cnt = 0, the event starts cleared
PlantInit ==
    /\ plant_dt \in 1..MaxPeriod
    /\ plant_pc = "idle"
    /\ shutdown_event = FALSE
    /\ step_cnt = 0
    /\ cb_idx = 0
    /\ cb_log = <<>>
    /\ attempts = 0
    /\ plant_failed = FALSE
    /\ p_elapsed = 0
    /\ p_sleep = 0

\* no command has been accepted yet: below every sequence number
NoSeq == -1

\* variant: the force is declared persistent
ForcePersistent_true == TRUE

\* self.force = ActuatorVariable(persistent=False, default=0.0)
ForcePersistent == FALSE

ForceDefault == 0

\* self.position = SensorVariable(): a SensorVariable is always persistent
SensorPersistent == TRUE

SensorDefault == 0

\* PlantRuntime before the first command, InvPendulumState.__init__
RtInit ==
    /\ delivered = <<>>
    /\ accepted = <<>>
    /\ last_seq = NoSeq
    /\ adopted = 0
    /\ applied = 0
    /\ force = ForceDefault
    /\ since_write = 1
    /\ force_last = ForceDefault
    /\ position = SensorDefault
    /\ pos_idle = 1
    /\ pos_last = SensorDefault
    /\ advanced = FALSE
    /\ read_force = ForceDefault
    /\ sv_tick = 0

\* the context and its loops; the plant is left as constructed
Init == LoopInit /\ CtxInit /\ PlantInit /\ plant_dt = 1 /\ RtInit

\* the plant; the loops are left as constructed
PlantSpecInit ==
    /\ LoopInit /\ CtxInit /\ PlantInit /\ RtInit
    /\ \A i \in Loops : kind[i] = "plain"

\* ------------------------------------------------- RunnableLoop.shutdown
\* variant: shutdown() flips the flag
shutdown_toggle(i) ==
    /\ flag' = [flag EXCEPT ![i] = ~@]
    /\ shutdown_req' = [shutdown_req EXCEPT ![i] = TRUE]

\* shutdown(): self._shutdown_flag.set()
shutdown(i) ==
    /\ flag' = [flag EXCEPT ![i] = TRUE]
    /\ shutdown_req' = [shutdown_req EXCEPT ![i] = TRUE]

\* is_shutdown()
is_shutdown(i) == flag[i]

\* some other party holding the loop calls shutdown()
ExtShutdown(i) ==
    /\ shutdown(i)
    /\ UNCHANGED <<kind, dt_ns, loop_pc, ticks, since_ti, gap, elapsed,
                   step_ns, sleep_req, slept, warned, logged>>
    /\ UNCHANGED <<ctxVars, plantVars, rtVars>>

\* ------------------------------------------------ wrap_with_error_logging
\* variant: the wrapper lets the exception through to the AsyncResult
wrap_with_error_logging_reraise(outcome) ==
    IF outcome = "raise"
    THEN [result |-> "exc", log |-> 0]
    ELSE [result |-> "none", log |-> 0]

\* the wrapper returns fn's value, or logs the exception and returns None
wrap_with_error_logging(outcome) ==
    IF outcome = "raise"
    THEN [result |-> "none", log |-> 1]
    ELSE [result |-> "none", log |-> 0]

\* the locals of run() go away when run() is left
LeaveRun(i, pc, outcome) ==
    /\ loop_pc' = [loop_pc EXCEPT ![i] = pc]
    /\ ticks' = [ticks EXCEPT ![i] = 0]
    /\ result' = [result EXCEPT ![i] = wrap_with_error_logging(outcome).result]
    /\ logged' = [logged EXCEPT
                    ![i] = @ + wrap_with_error_logging(outcome).log]
    /\ since_ti' = [since_ti EXCEPT ![i] = 0]
    /\ gap' = [gap EXCEPT ![i] = 0]
    /\ elapsed' = [elapsed EXCEPT ![i] = 0]
    /\ step_ns' = [step_ns EXCEPT ![i] = 0]
    /\ sleep_req' = [sleep_req EXCEPT ![i] = 0]
    /\ slept' = [slept EXCEPT ![i] = 0]
    /\ warned' = [warned EXCEPT ![i] = 0]

\* a pool worker takes the task and calls l.run(); run() logs its first line
WorkerStart(i) ==
    /\ submitted[i]
    /\ loop_pc[i] = "idle"
    /\ result[i] = "pending"
    /\ loop_pc' = [loop_pc EXCEPT ![i] = "init"]
    /\ UNCHANGED <<kind, dt_ns, flag, ticks, since_ti, gap, elapsed,
                   step_ns, sleep_req, slept, warned, shutdown_req, logged>>
    /\ UNCHANGED <<ctxVars, plantVars, rtVars>>

\* ----------------------------------------------------- RunnableLoop.run
\* self._shutdown_flag.clear()
Run_Clear(i) ==
    /\ kind[i] = "plain"
    /\ loop_pc[i] = "init"
    /\ flag' = [flag EXCEPT ![i] = FALSE]
    /\ loop_pc' = [loop_pc EXCEPT ![i] = "check"]
    /\ UNCHANGED <<kind, dt_ns, ticks, since_ti, gap, elapsed, step_ns,
                   sleep_req, slept, warned, shutdown_req, logged>>
    /\ UNCHANGED <<ctxVars, plantVars, rtVars>>

\* while not self._shutdown_flag.is_set(): self._loop() is entered
Run_Check(i) ==
    /\ kind[i] = "plain"
    /\ loop_pc[i] = "check"
    /\ IF flag[i]
       THEN LeaveRun(i, "returned", "ok")
       ELSE /\ ticks[i] < MaxTicks
            /\ ticks' = [ticks EXCEPT ![i] = @ + 1]
            /\ loop_pc' = [loop_pc EXCEPT ![i] = "step"]
            /\ UNCHANGED <<since_ti, gap, elapsed, step_ns, sleep_req,
                           slept, warned, logged, result>>
    /\ UNCHANGED <<kind, dt_ns, flag, shutdown_req>>
    /\ UNCHANGED <<submitted, ctx_pc, ctx_idx, scope_exc, plantVars, rtVars>>

\* self._loop() returns
Run_LoopReturn(i) ==
    /\ kind[i] = "plain"
    /\ loop_pc[i] = "step"
    /\ loop_pc' = [loop_pc EXCEPT ![i] = "check"]
    /\ UNCHANGED <<kind, dt_ns, flag, ticks, since_ti, gap, elapsed, step_ns,
                   sleep_req, slept, warned, shutdown_req, logged>>
    /\ UNCHANGED <<ctxVars, plantVars, rtVars>>

\* variant: a failed step marks the loop as shut down
Run_LoopRaise_setflag(i) ==
    /\ kind[i] = "plain"
    /\ loop_pc[i] = "step"
    /\ LeaveRun(i, "crashed", "raise")
    /\ flag' = [flag EXCEPT ![i] = TRUE]
    /\ UNCHANGED <<kind, dt_ns, shutdown_req>>
    /\ UNCHANGED <<submitted, ctx_pc, ctx_idx, scope_exc, plantVars, rtVars>>

\* self._loop() raises: the exception leaves run() and reaches the wrapper
Run_LoopRaise(i) ==
    /\ kind[i] = "plain"
    /\ loop_pc[i] = "step"
    /\ LeaveRun(i, "crashed", "raise")
    /\ UNCHANGED <<kind, dt_ns, flag, shutdown_req>>
    /\ UNCHANGED <<submitted, ctx_pc, ctx_idx, scope_exc, plantVars, rtVars>>

\* ------------------------------------------------ TimedRunnableLoop.run
\* self._shutdown_flag.clear()
TRun_Clear(i) ==
    /\ kind[i] = "timed"
    /\ loop_pc[i] = "init"
    /\ flag' = [flag EXCEPT ![i] = FALSE]
    /\ loop_pc' = [loop_pc EXCEPT ![i] = "check"]
    /\ UNCHANGED <<kind, dt_ns, ticks, since_ti, gap, elapsed, step_ns,
                   sleep_req, slept, warned, shutdown_req, logged>>
    /\ UNCHANGED <<ctxVars, plantVars, rtVars>>

\* while not self._shutdown_flag.is_set(): ti = time.monotonic_ns(), taken
\* gap ns after the stamp before it, and self._loop() is entered
TRun_Check(i) ==
    /\ kind[i] = "timed"
    /\ loop_pc[i] = "check"
    /\ IF flag[i]
       THEN LeaveRun(i, "returned", "ok")
       ELSE /\ ticks[i] < MaxTicks
            /\ ticks' = [ticks EXCEPT ![i] = @ + 1]
            /\ gap' = [gap EXCEPT
                         ![i] = IF ticks[i] > 0 THEN since_ti[i] ELSE 0]
            /\ since_ti' = [since_ti EXCEPT ![i] = 0]
            /\ slept' = [slept EXCEPT ![i] = 0]
            /\ warned' = [warned EXCEPT ![i] = 0]
            /\ loop_pc' = [loop_pc EXCEPT ![i] = "step"]
            /\ UNCHANGED <<elapsed, step_ns, sleep_req, logged, result>>
    /\ UNCHANGED <<kind, dt_ns, flag, shutdown_req>>
    /\ UNCHANGED <<submitted, ctx_pc, ctx_idx, scope_exc, plantVars, rtVars>>

\* self._loop() returns after d ns; dt = time.monotonic_ns() - ti
TRun_LoopReturn(i, d) ==
    /\ kind[i] = "timed"
    /\ loop_pc[i] = "step"
    /\ since_ti' = [since_ti EXCEPT ![i] = @ + d]
    /\ step_ns' = [step_ns EXCEPT ![i] = d]
    /\ elapsed' = [elapsed EXCEPT ![i] = since_ti[i] + d]
    /\ gap' = [gap EXCEPT ![i] = 0]
    /\ loop_pc' = [loop_pc EXCEPT ![i] = "measured"]
    /\ UNCHANGED <<kind, dt_ns, flag, ticks, sleep_req, slept, warned,
                   shutdown_req, logged>>
    /\ UNCHANGED <<ctxVars, plantVars, rtVars>>

\* variant: a failed step marks the loop as shut down
TRun_LoopRaise_setflag(i) ==
    /\ kind[i] = "timed"
    /\ loop_pc[i] = "step"
    /\ LeaveRun(i, "crashed", "raise")
    /\ flag' = [flag EXCEPT ![i] = TRUE]
    /\ UNCHANGED <<kind, dt_ns, shutdown_req>>
    /\ UNCHANGED <<submitted, ctx_pc, ctx_idx, scope_exc, plantVars, rtVars>>

\* self._loop() raises: the exception leaves run() and reaches the wrapper
TRun_LoopRaise(i) ==
    /\ kind[i] = "timed"
    /\ loop_pc[i] = "step"
    /\ LeaveRun(i, "crashed", "raise")
    /\ UNCHANGED <<kind, dt_ns, flag, shutdown_req>>
    /\ UNCHANGED <<submitted, ctx_pc, ctx_idx, scope_exc, plantVars, rtVars>>

\* variant: the elapsed time is not subtracted
SleepArg_period(period, dt) == period

\* variant: the magnitude of the difference is slept
SleepArg_abs(period, dt) ==
    IF period >= dt THEN period - dt ELSE dt - period

\* the argument of time.sleep, (self._dt_ns - dt) / 1e9, in nanoseconds
SleepArg(period, dt) == period - dt

\* variant: a zero argument is refused as well
SleepRaises_nonpositive(arg) == arg <= 0

\* time.sleep raises ValueError for a negative argument
SleepRaises(arg) == arg < 0

\* try: time.sleep(...) except ValueError: logger.warning(...)
TRun_Sleep(i) ==
    /\ kind[i] = "timed"
    /\ loop_pc[i] = "measured"
    /\ IF SleepRaises(SleepArg(dt_ns[i], elapsed[i]))
       THEN /\ warned' = [warned EXCEPT ![i] = @ + 1]
            /\ loop_pc' = [loop_pc EXCEPT ![i] = "check"]
            /\ UNCHANGED sleep_req
       ELSE /\ sleep_req' = [sleep_req EXCEPT
                               ![i] = SleepArg(dt_ns[i], elapsed[i])]
            /\ loop_pc' = [loop_pc EXCEPT ![i] = "sleeping"]
            /\ UNCHANGED warned
    /\ UNCHANGED <<kind, dt_ns, flag, ticks, since_ti, gap, elapsed,
                   step_ns, slept, shutdown_req, logged>>
    /\ UNCHANGED <<ctxVars, plantVars, rtVars>>

\* time.sleep returns
TRun_Wake(i) ==
    /\ kind[i] = "timed"
    /\ loop_pc[i] = "sleeping"
    /\ since_ti' = [since_ti EXCEPT ![i] = @ + sleep_req[i]]
    /\ slept' = [slept EXCEPT ![i] = @ + sleep_req[i]]
    /\ sleep_req' = [sleep_req EXCEPT ![i] = 0]
    /\ loop_pc' = [loop_pc EXCEPT ![i] = "check"]
    /\ UNCHANGED <<kind, dt_ns, flag, ticks, gap, elapsed, step_ns, warned,
                   shutdown_req, logged>>
    /\ UNCHANGED <<ctxVars, plantVars, rtVars>>

\* --------------------------------------------------- RunnableLoopContext
\* variant: the pool loses track of the tasks it was given
TaskRunning_never(i) == FALSE

\* the pool holds a task for loop i whose result has not arrived
TaskRunning(i) == submitted[i] /\ result[i] = "pending"

\* variant: the result is not waited for
ResultReady_early(i) == submitted[i]

\* r.get() blocks until the task's function has returned
ResultReady(i) == ~TaskRunning(i)

\* self._pool = self._pool.__enter__()
CtxEnterPool ==
    /\ ctx_pc = "new"
    /\ ctx_pc' = "start"
    /\ ctx_idx' = 1
    /\ UNCHANGED <<submitted, result, scope_exc>>
    /\ UNCHANGED <<loopVars, plantVars, rtVars>>

\* r = self._pool.apply_async(wrap_with_error_logging(lambda l: l.run()),
\*                            args=(loop,))
CtxApplyAsync(i) ==
    /\ ctx_pc = "start"
    /\ ctx_idx = i
    /\ submitted' = [submitted EXCEPT ![i] = TRUE]
    /\ ctx_pc' = "get"
    /\ UNCHANGED <<result, ctx_idx, scope_exc>>
    /\ UNCHANGED <<loopVars, plantVars, rtVars>>

\* r.get(): returns the task's value or raises the task's exception; after
\* the last loop __enter__ returns self and the with body begins
CtxGet(i) ==
    /\ ctx_pc = "get"
    /\ ctx_idx = i
    /\ ResultReady(i)
    /\ IF result[i] = "exc"
       THEN ctx_pc' = "raised" /\ UNCHANGED ctx_idx
       ELSE IF i = NumLoops
            THEN ctx_pc' = "body" /\ UNCHANGED ctx_idx
            ELSE ctx_pc' = "start" /\ ctx_idx' = i + 1
    /\ UNCHANGED <<submitted, result, scope_exc>>
    /\ UNCHANGED <<loopVars, plantVars, rtVars>>

\* the body of the with statement ends, normally or with an exception, and
\* __exit__ is called
CtxBody(e) ==
    /\ ctx_pc = "body"
    /\ scope_exc' = e
    /\ ctx_pc' = "exit"
    /\ ctx_idx' = 1
    /\ UNCHANGED <<submitted, result>>
    /\ UNCHANGED <<loopVars, plantVars, rtVars>>

\* variant: __exit__ walks the loops without calling shutdown()
CtxExitShutdown_skip(i) ==
    /\ ctx_pc = "exit"
    /\ ctx_idx = i
    /\ IF i = NumLoops
       THEN ctx_pc' = "term" /\ UNCHANGED ctx_idx
       ELSE ctx_idx' = i + 1 /\ UNCHANGED ctx_pc
    /\ UNCHANGED <<loopVars, submitted, result, scope_exc, plantVars, rtVars>>

\* for loop in self._loops: loop.shutdown()
CtxExitShutdown(i) ==
    /\ ctx_pc = "exit"
    /\ ctx_idx = i
    /\ shutdown(i)
    /\ IF i = NumLoops
       THEN ctx_pc' = "term" /\ UNCHANGED ctx_idx
       ELSE ctx_idx' = i + 1 /\ UNCHANGED ctx_pc
    /\ UNCHANGED <<kind, dt_ns, loop_pc, ticks, since_ti, gap, elapsed,
                   step_ns, sleep_req, slept, warned, logged>>
    /\ UNCHANGED <<submitted, result, scope_exc, plantVars, rtVars>>

\* Python's truth value of what __exit__ returns
Truthy(v) == v \notin {"None", "False"}

\* variant: the pool's __exit__ returns True
PoolExitValue_true == "True"

\* what self._pool.__exit__ returns: Pool.__exit__ calls terminate() and has
\* no return statement
PoolExitValue == "None"

\* Pool.__exit__ is terminate(): the workers are stopped at once and joined,
\* queued tasks are dropped
PoolTerminate(i) ==
    IF TaskRunning(i) /\ loop_pc[i] \in RunningPcs THEN "killed"
    ELSE loop_pc[i]

\* return self._pool.__exit__(exc_type, exc_val, exc_tb); a truthy return
\* value of __exit__ makes the with statement swallow the exception
CtxPoolExit ==
    /\ ctx_pc = "term"
    /\ loop_pc' = [i \in Loops |-> PoolTerminate(i)]
    /\ submitted' = [i \in Loops |-> submitted[i] /\ ~TaskRunning(i)]
    /\ ctx_pc' = "exited"
    /\ scope_exc' = (scope_exc /\ ~Truthy(PoolExitValue))
    /\ UNCHANGED <<kind, dt_ns, flag, ticks, since_ti, gap, elapsed,
                   step_ns, sleep_req, slept, warned, shutdown_req, logged>>
    /\ UNCHANGED <<result, ctx_idx, plantVars, rtVars>>

\* -------------------------------------------------------------- BasePlant
\* the six callbacks of BasePlant._step
NumCallbacks == 6

\* BasePlant.shutdown(): self._shutdown_event.set()
PlantShutdown ==
    /\ shutdown_event' = TRUE
    /\ UNCHANGED <<plant_dt, plant_pc, step_cnt, cb_idx, cb_log, attempts,
                   plant_failed, p_elapsed, p_sleep>>
    /\ UNCHANGED <<loopVars, ctxVars, rtVars>>

\* variant: run() clears the event on entry, as RunnableLoop.run does
PlantRunCall_clear ==
    /\ plant_pc \in {"idle", "returned"}
    /\ plant_pc' = "check"
    /\ shutdown_event' = FALSE
    /\ UNCHANGED <<plant_dt, step_cnt, cb_idx, cb_log, attempts, plant_failed,
                   p_elapsed, p_sleep>>
    /\ UNCHANGED <<loopVars, ctxVars, rtVars>>

\* run() is called
PlantRunCall ==
    /\ plant_pc \in {"idle", "returned"}
    /\ plant_pc' = "check"
    /\ UNCHANGED <<plant_dt, shutdown_event, step_cnt, cb_idx, cb_log,
                   attempts, plant_failed, p_elapsed, p_sleep>>
    /\ UNCHANGED <<loopVars, ctxVars, rtVars>>

\* while not self._shutdown_event.is_set(): ti = time.time(); _step() begins
PlantCheck ==
    /\ plant_pc = "check"
    /\ IF shutdown_event
       THEN /\ plant_pc' = "returned"
            /\ UNCHANGED <<cb_idx, cb_log, attempts>>
       ELSE /\ attempts < MaxPlantTicks
            /\ attempts' = attempts + 1
            /\ cb_idx' = 0
            /\ cb_log' = <<>>
            /\ plant_pc' = "step"
    /\ UNCHANGED <<plant_dt, shutdown_event, step_cnt, plant_failed,
                   p_elapsed, p_sleep>>
    /\ UNCHANGED <<loopVars, ctxVars, rtVars>>

\* variant: simulate() is called before actuate()
StepOrder_simulate_first ==
    <<"pre_actuate_hook", "simulate", "pre_simulate_hook", "actuate",
      "post_simulate_hook", "sample_system_state">>

\* the calls of BasePlant._step, in the order they are written
StepOrder ==
    <<"pre_actuate_hook", "actuate", "pre_simulate_hook", "simulate",
      "post_simulate_hook", "sample_system_state">>

\* the next callback of _step runs and returns
PlantCallback ==
    /\ plant_pc = "step"
    /\ cb_idx < NumCallbacks
    /\ cb_idx' = cb_idx + 1
    /\ cb_log' = Append(cb_log, StepOrder[cb_idx + 1])
    /\ UNCHANGED <<plant_dt, plant_pc, shutdown_event, step_cnt, attempts,
                   plant_failed, p_elapsed, p_sleep>>
    /\ UNCHANGED <<loopVars, ctxVars, rtVars>>

\* variant: the failed tick is counted as well
PlantCallbackRaise_count ==
    /\ plant_pc = "step"
    /\ cb_idx < NumCallbacks
    /\ plant_failed' = TRUE
    /\ shutdown_event' = TRUE
    /\ plant_pc' = "returned"
    /\ step_cnt' = step_cnt + 1
    /\ cb_log' = Append(cb_log, StepOrder[cb_idx + 1])
    /\ UNCHANGED <<plant_dt, cb_idx, attempts, p_elapsed, p_sleep>>
    /\ UNCHANGED <<loopVars, ctxVars, rtVars>>

\* variant: the except clause returns without calling self.shutdown()
PlantCallbackRaise_noshutdown ==
    /\ plant_pc = "step"
    /\ cb_idx < NumCallbacks
    /\ plant_failed' = TRUE
    /\ plant_pc' = "returned"
    /\ cb_log' = Append(cb_log, StepOrder[cb_idx + 1])
    /\ UNCHANGED <<plant_dt, shutdown_event, step_cnt, cb_idx, attempts,
                   p_elapsed, p_sleep>>
    /\ UNCHANGED <<loopVars, ctxVars, rtVars>>

\* the next callback of _step raises: except Exception logs, calls
\* self.shutdown() and returns
PlantCallbackRaise ==
    /\ plant_pc = "step"
    /\ cb_idx < NumCallbacks
    /\ plant_failed' = TRUE
    /\ shutdown_event' = TRUE
    /\ plant_pc' = "returned"
    /\ cb_log' = Append(cb_log, StepOrder[cb_idx + 1])
    /\ UNCHANGED <<plant_dt, step_cnt, cb_idx, attempts, p_elapsed, p_sleep>>
    /\ UNCHANGED <<loopVars, ctxVars, rtVars>>

\* variant: the tick counter is not incremented
PlantTickEnd_nocount(e) ==
    /\ plant_pc = "step"
    /\ cb_idx = NumCallbacks
    /\ p_elapsed' = e
    /\ p_sleep' = Max(plant_dt - e, 0)
    /\ plant_pc' = "sleeping"
    /\ UNCHANGED <<plant_dt, shutdown_event, step_cnt, cb_idx, cb_log,
                   attempts, plant_failed>>
    /\ UNCHANGED <<loopVars, ctxVars, rtVars>>

\* variant: the remaining time is slept without the max(..., 0)
PlantTickEnd_nomax(e) ==
    /\ plant_pc = "step"
    /\ cb_idx = NumCallbacks
    /\ step_cnt' = step_cnt + 1
    /\ p_elapsed' = e
    /\ p_sleep' = plant_dt - e
    /\ plant_pc' = "sleeping"
    /\ UNCHANGED <<plant_dt, shutdown_event, cb_idx, cb_log, attempts,
                   plant_failed>>
    /\ UNCHANGED <<loopVars, ctxVars, rtVars>>

\* _step() has returned after e time units: self.step_cnt += 1 and
\* time.sleep(max(self.dt - time.time() + ti, 0))
PlantTickEnd(e) ==
    /\ plant_pc = "step"
    /\ cb_idx = NumCallbacks
    /\ step_cnt' = step_cnt + 1
    /\ p_elapsed' = e
    /\ p_sleep' = Max(plant_dt - e, 0)
    /\ plant_pc' = "sleeping"
    /\ UNCHANGED <<plant_dt, shutdown_event, cb_idx, cb_log, attempts,
                   plant_failed>>
    /\ UNCHANGED <<loopVars, ctxVars, rtVars>>

\* time.sleep returns
PlantWake ==
    /\ plant_pc = "sleeping"
    /\ plant_pc' = "check"
    /\ UNCHANGED <<plant_dt, shutdown_event, step_cnt, cb_idx, cb_log,
                   attempts, plant_failed, p_elapsed, p_sleep>>
    /\ UNCHANGED <<loopVars, ctxVars, rtVars>>

\* ----------------------------------------------- stale-command rejection
\* variant: a command is taken unless it is older than the last accepted one
Newer_or_equal(s, last) == s >= last

\* the sequence number is strictly greater than the last accepted one
Newer(s, last) == s > last

\* the non-blocking check finds a pending ActuationCommand with sequence
\* number s; its values are the number of its delivery, so that no two
\* commands carry the same values; it is adopted or discarded
Deliver(s) ==
    /\ Len(delivered) < MaxDeliveries
    /\ delivered' = Append(delivered, s)
    /\ IF Newer(s, last_seq)
       THEN /\ last_seq' = s
            /\ adopted' = Len(delivered) + 1
            /\ accepted' = Append(accepted, s)
       ELSE UNCHANGED <<last_seq, adopted, accepted>>
    /\ UNCHANGED applied
    /\ UNCHANGED <<loopVars, ctxVars, plantVars, stateVars>>

\* actuate(): the values of the most recently accepted command are applied
Actuate ==
    /\ applied' = adopted
    /\ UNCHANGED <<delivered, accepted, last_seq, adopted>>
    /\ UNCHANGED <<loopVars, ctxVars, plantVars, stateVars>>

\* ------------------------------------------------------- state variables
\* the value a variable has when a control step begins: its default if it is
\* not persistent and was not written during the step that ended
ResetAtStep(persistent, unwritten, value, default) ==
    IF ~persistent /\ unwritten THEN default ELSE value

\* a control step begins
StepStart ==
    /\ sv_tick < MaxStateTicks
    /\ sv_tick' = sv_tick + 1
    /\ force' = ResetAtStep(ForcePersistent, since_write >= 1, force,
                            ForceDefault)
    /\ position' = ResetAtStep(SensorPersistent, pos_idle >= 1, position,
                               SensorDefault)
    /\ since_write' = since_write + 1
    /\ pos_idle' = pos_idle + 1
    /\ advanced' = FALSE
    /\ read_force' = ForceDefault
    /\ UNCHANGED <<force_last, pos_last>>
    /\ UNCHANGED <<loopVars, ctxVars, plantVars, chanVars>>

\* the values of an adopted command are written to the actuator variable
WriteForce(v) ==
    /\ force' = v
    /\ force_last' = v
    /\ since_write' = 0
    /\ UNCHANGED <<position, pos_idle, pos_last, advanced, read_force,
                   sv_tick>>
    /\ UNCHANGED <<loopVars, ctxVars, plantVars, chanVars>>

\* InvPendulumState.advance(): force = self.force is read, the world is
\* stepped and self.position is written with the cart's position p
Advance(p) ==
    /\ sv_tick >= 1
    /\ ~advanced
    /\ read_force' = force
    /\ position' = p
    /\ pos_last' = p
    /\ pos_idle' = 0
    /\ advanced' = TRUE
    /\ UNCHANGED <<force, since_write, force_last, sv_tick>>
    /\ UNCHANGED <<loopVars, ctxVars, plantVars, chanVars>>

\* -------------------------------------------------------- specifications
Next ==
    \/ \E i \in Loops : ExtShutdown(i)
    \/ \E i \in Loops : WorkerStart(i)
    \/ \E i \in Loops : Run_Clear(i)
    \/ \E i \in Loops : Run_Check(i)
    \/ \E i \in Loops : Run_LoopReturn(i)
    \/ \E i \in Loops : Run_LoopRaise(i)
    \/ \E i \in Loops : TRun_Clear(i)
    \/ \E i \in Loops : TRun_Check(i)
    \/ \E i \in Loops : \E d \in 0..MaxStepNs : TRun_LoopReturn(i, d)
    \/ \E i \in Loops : TRun_LoopRaise(i)
    \/ \E i \in Loops : TRun_Sleep(i)
    \/ \E i \in Loops : TRun_Wake(i)
    \/ CtxEnterPool
    \/ \E i \in Loops : CtxApplyAsync(i)
    \/ \E i \in Loops : CtxGet(i)
    \/ \E e \in BOOLEAN : CtxBody(e)
    \/ \E i \in Loops : CtxExitShutdown(i)
    \/ CtxPoolExit

Spec == Init /\ [][Next]_vars

PlantNext ==
    \/ PlantShutdown
    \/ PlantRunCall
    \/ PlantCheck
    \/ PlantCallback
    \/ PlantCallbackRaise
    \/ \E e \in 0..MaxStepNs : PlantTickEnd(e)
    \/ PlantWake

PlantSpec == PlantSpecInit /\ [][PlantNext]_vars

\* plain loops under a context, next to a plant that is run and shut down
ShutdownInit == Init /\ \A i \in Loops : kind[i] = "plain"

ShutdownNext ==
    \/ \E i \in Loops : ExtShutdown(i)
    \/ \E i \in Loops : WorkerStart(i)
    \/ \E i \in Loops : Run_Clear(i)
    \/ \E i \in Loops : Run_Check(i)
    \/ \E i \in Loops : Run_LoopReturn(i)
    \/ \E i \in Loops : Run_LoopRaise(i)
    \/ CtxEnterPool
    \/ \E i \in Loops : CtxApplyAsync(i)
    \/ \E i \in Loops : CtxGet(i)
    \/ \E e \in BOOLEAN : CtxBody(e)
    \/ \E i \in Loops : CtxExitShutdown(i)
    \/ CtxPoolExit
    \/ PlantShutdown
    \/ PlantRunCall
    \/ PlantCheck
    \/ PlantCallback
    \/ PlantCallbackRaise
    \/ \E e \in 0..MaxStepNs : PlantTickEnd(e)
    \/ PlantWake

ShutdownSpec == ShutdownInit /\ [][ShutdownNext]_vars

\* commands reaching a PlantRuntime in any order, and its actuate()
ChannelInit == Init /\ \A i \in Loops : kind[i] = "plain"

ChannelNext ==
    \/ \E s \in 0..MaxSeq : Deliver(s)
    \/ Actuate

ChannelSpec == ChannelInit /\ [][ChannelNext]_vars

\* the variables of an InvPendulumState over its control steps
StateInit == Init /\ \A i \in Loops : kind[i] = "plain"

StateNext ==
    \/ StepStart
    \/ \E v \in 0..MaxValue : WriteForce(v)
    \/ \E p \in 0..MaxValue : Advance(p)

StateSpec == StateInit /\ [][StateNext]_vars

\* ------------------------------------------------------------ properties
\* the loop has begun executing the body of run()
Begun(i) == loop_pc[i] \in {"check", "step", "measured", "sleeping"}

\* a _loop() invocation of loop i begins in this step
StepBegins(i) == loop_pc[i] = "check" /\ loop_pc'[i] = "step"

\* loop i is a TimedRunnableLoop that has finished an iteration
TickDone(i) == kind[i] = "timed" /\ loop_pc[i] = "check" /\ ticks[i] > 0

\* C1: once shutdown() has returned for a loop, whenever it was called (also
\* before or during the start of run()), no new _loop() invocation begins.
C1_ShutdownHonoured ==
    [][\A i \in Loops : StepBegins(i) => ~shutdown_req[i]]_vars

\* C2: when __enter__ has returned and no loop failed or was shut down, every
\* loop is executing; and while __enter__ waits on a loop that has begun
\* executing, its wait is over (it waits for the begin, not for the end).
C2_EnterStartsAllLive ==
    /\ (ctx_pc = "body" /\ \A i \in Loops :
            loop_pc[i] # "crashed" /\ ~shutdown_req[i])
        => \A i \in Loops : Begun(i)
    /\ \A i \in Loops :
        (ctx_pc = "get" /\ ctx_idx = i /\ Begun(i)) => ENABLED CtxGet(i)

C4_NoLoopOutlivesScope ==
    ctx_pc = "exited"
    => \A i \in Loops :
          /\ loop_pc[i] \notin RunningPcs
          /\ ~(submitted[i] /\ loop_pc[i] = "idle")

\* __exit__ has returned, after a scope that ended with an exception; one
\* loop had run until it was shut down and another until it crashed
C4_Witness ==
    /\ ctx_pc = "exited"
    /\ scope_exc
    /\ \E i \in Loops : loop_pc[i] = "returned"
    /\ \E i \in Loops : loop_pc[i] = "crashed"

\* C5: after __exit__ has returned shutdown() has been called on every loop
\* and every loop reports is_shutdown() = TRUE.
C5_AllShutdownAfterExit ==
    ctx_pc = "exited"
    => \A i \in Loops : is_shutdown(i) /\ shutdown_req[i]

\* __exit__ has returned and one of the loops had crashed
C5_Witness ==
    /\ ctx_pc = "exited"
    /\ \E i \in Loops : loop_pc[i] = "crashed" /\ is_shutdown(i)

\* C6: a _loop() invocation that has begun ends by itself (it returns or it
\* raises); it is never cut short, also not by __exit__.
C6_NoPreemption ==
    [][\A i \in Loops :
        loop_pc[i] = "step"
        => loop_pc'[i] \in {"step", "check", "measured", "crashed"}]_vars

\* shutdown() has been called on a loop that is inside a step
C6_Witness ==
    \E i \in Loops :
        loop_pc[i] = "step" /\ shutdown_req[i] /\ is_shutdown(i)

C8_PeriodicStart ==
    \A i \in Loops : kind[i] = "timed" =>
        /\ loop_pc[i] = "measured"
            => (elapsed[i] = step_ns[i] /\ elapsed[i] = since_ti[i])
        /\ (loop_pc[i] = "sleeping" /\ elapsed[i] < dt_ns[i])
            => sleep_req[i] = dt_ns[i] - elapsed[i]
        /\ (TickDone(i) /\ elapsed[i] < dt_ns[i])
            => (slept[i] = dt_ns[i] - elapsed[i] /\ since_ti[i] = dt_ns[i])
        /\ (loop_pc[i] = "step" /\ ticks[i] >= 2 /\ elapsed[i] < dt_ns[i])
            => gap[i] = dt_ns[i]

\* a step has just started one period after a step that took less than the
\* period, but some time
C8_Witness ==
    \E i \in Loops :
        /\ kind[i] = "timed" /\ loop_pc[i] = "step" /\ ticks[i] >= 2
        /\ elapsed[i] > 0 /\ elapsed[i] < dt_ns[i]
        /\ gap[i] = dt_ns[i]

\* C9: an iteration with elapsed >= period does not end the loop and is
\* followed by no sleep: the next step starts at the moment the overrunning
\* one was measured; every iteration's sleep is max(period - elapsed, 0) of
\* its own elapsed time; the period never changes and no tick is skipped.
C9_OverrunLeavesNoTrace ==
    /\ [](\A i \in Loops : kind[i] = "timed" =>
            /\ TickDone(i) => slept[i] = Max(dt_ns[i] - elapsed[i], 0)
            /\ (TickDone(i) /\ elapsed[i] >= dt_ns[i])
                => since_ti[i] = elapsed[i]
            /\ (loop_pc[i] = "step" /\ ticks[i] >= 2 /\ elapsed[i] >= dt_ns[i])
                => gap[i] = elapsed[i])
    /\ [][\A i \in Loops : kind[i] = "timed" =>
            /\ dt_ns'[i] = dt_ns[i]
            /\ loop_pc'[i] \in RunningPcs
                => ticks'[i] \in {ticks[i], ticks[i] + 1}
            /\ (loop_pc[i] = "measured" /\ elapsed[i] >= dt_ns[i])
                => loop_pc'[i] \in {"measured", "check", "sleeping"}
            /\ (TickDone(i) /\ elapsed[i] >= dt_ns[i] /\ ~flag[i]
                    /\ loop_pc'[i] # "check")
                => (loop_pc'[i] = "step" /\ ticks'[i] = ticks[i] + 1
                    /\ since_ti'[i] = 0 /\ gap'[i] = elapsed[i])]_vars

\* a step has started at the moment the step before it, which overran the
\* period, was measured
C9_Witness ==
    \E i \in Loops :
        /\ kind[i] = "timed" /\ loop_pc[i] = "step" /\ ticks[i] >= 2
        /\ elapsed[i] > dt_ns[i]
        /\ gap[i] = elapsed[i]

\* C10: once a callback of _step has raised, the exception has been caught in
\* run(): the event is set, run() has returned, the rest of the tick's
\* callbacks do not run, and no tick is begun again, also not by a later
\* call of run().
C10_FailedTickStopsPlant ==
    /\ [](plant_failed =>
            /\ shutdown_event
            /\ plant_pc \in {"returned", "check"}
            /\ cb_idx < NumCallbacks)
    /\ [][plant_failed =>
            /\ attempts' = attempts
            /\ cb_idx' = cb_idx
            /\ step_cnt' = step_cnt
            /\ plant_failed']_vars

\* a tick failed part-way after an earlier tick had completed, and run() was
\* called again
C10_Witness ==
    /\ plant_failed
    /\ plant_pc = "check"
    /\ cb_idx > 0 /\ cb_idx < NumCallbacks
    /\ step_cnt > 0

\* the order of the callbacks as the claim gives it
C11_Order ==
    <<"pre_actuate_hook", "actuate", "pre_simulate_hook", "simulate",
      "post_simulate_hook", "sample_system_state">>

\* C11: the callbacks invoked in a tick are an initial part of the list
\* pre_actuate_hook, actuate, pre_simulate_hook, simulate,
\* post_simulate_hook, sample_system_state (so each at most once, in that
\* order), all six in a tick that completes, and a tick begins only when no
\* tick was begun before or the one before it has run all six.
C11_CallbackOrder ==
    /\ [](/\ Len(cb_log) <= Len(C11_Order)
          /\ cb_log = SubSeq(C11_Order, 1, Len(cb_log))
          /\ plant_pc = "sleeping" => cb_log = C11_Order
          /\ step_cnt > 0 /\ plant_pc \in {"check", "idle", "returned"}
                /\ ~plant_failed => cb_log = C11_Order)
    /\ [][attempts' # attempts =>
            /\ plant_pc = "check"
            /\ (attempts = 0 /\ cb_log = <<>>) \/ cb_log = C11_Order
            /\ cb_log' = <<>>]_vars

\* a second tick has run its first four callbacks
C11_Witness ==
    /\ attempts = 2
    /\ plant_pc = "step"
    /\ cb_log = SubSeq(C11_Order, 1, 4)

\* C12: once the plant's shutdown event is set it stays set and no tick is
\* begun; a run() that finds it set at the top of its loop returns without
\* running a callback.
C12_StoppedIsTerminal ==
    [][shutdown_event =>
        /\ shutdown_event'
        /\ attempts' = attempts
        /\ plant_pc = "check" =>
              (plant_pc' \in {"check", "returned"} /\ cb_log' = cb_log)]_vars

\* run() was called on a plant that had been shut down before any tick, and
\* has returned without a tick
C12_Witness ==
    /\ shutdown_event
    /\ ~plant_failed
    /\ plant_pc = "returned"
    /\ attempts = 0

\* C13: step_cnt is 0 until a tick has completed, never decreases, and when
\* the n-th tick begins (n counted from 0) step_cnt is exactly n: ticks begin
\* one at a time, each with a number one above the tick before it.
C13_TicksInSequence ==
    /\ [](/\ attempts = 0 => step_cnt = 0
          /\ plant_pc = "step" => step_cnt = attempts - 1)
    /\ [][/\ step_cnt' >= step_cnt
          /\ step_cnt' <= step_cnt + 1
          /\ attempts' # attempts =>
                /\ plant_pc # "step"
                /\ attempts' = attempts + 1
                /\ step_cnt = attempts
                /\ step_cnt' = step_cnt]_vars

\* the third tick is in progress and carries the number 2
C13_Witness ==
    /\ plant_pc = "step"
    /\ attempts = 3
    /\ step_cnt = 2
    /\ cb_idx = 0

\* C19: step_cnt is the number of ticks begun, less the one in progress and
\* less the one that failed; the step in which a tick fails and the step in
\* which shutdown() sets the event leave step_cnt and dt as they are.
C19_StepCntCountsWholeTicks ==
    /\ [](step_cnt = attempts - (IF plant_pc = "step" THEN 1 ELSE 0)
                              - (IF plant_failed THEN 1 ELSE 0))
    /\ [][/\ (plant_failed' /\ ~plant_failed)
                => (step_cnt' = step_cnt /\ plant_dt' = plant_dt)
          /\ (shutdown_event' /\ ~shutdown_event)
                => (step_cnt' = step_cnt /\ plant_dt' = plant_dt)
          /\ (shutdown_event' /\ ~shutdown_event /\ ~plant_failed')
                => UNCHANGED <<plant_pc, cb_idx, cb_log, attempts,
                               p_elapsed, p_sleep>>]_vars

\* the third tick failed in its last callback after two whole ticks
C19_Witness ==
    /\ plant_failed
    /\ attempts = 3
    /\ step_cnt = 2
    /\ cb_idx = NumCallbacks - 1

\* C17: a loop that has not entered run() reports is_shutdown() = TRUE; the
\* flag goes from set to cleared only in the first statement of run(), and
\* from cleared to set only in a shutdown() call, which moves the loop
\* nowhere; so a cleared flag is seen only on a loop that has entered run();
\* and a _loop() invocation begins only from the loop test of an active run().
C17_FlagChangesInThreePlaces ==
    /\ [](\A i \in Loops :
            /\ loop_pc[i] \in {"idle", "init"} => is_shutdown(i)
            /\ loop_pc[i] = "step" => ticks[i] > 0)
    /\ [][\A i \in Loops :
            /\ (flag[i] /\ ~flag'[i])
                  => (loop_pc[i] = "init" /\ loop_pc'[i] = "check")
            /\ (~flag[i] /\ flag'[i])
                  => /\ ExtShutdown(i) \/ CtxExitShutdown(i)
                     /\ loop_pc' = loop_pc
            /\ (loop_pc'[i] = "step" /\ loop_pc[i] # "step")
                  => (loop_pc[i] = "check" /\ ~flag[i])
            /\ ticks'[i] > ticks[i] => StepBegins(i)]_vars

\* a loop that was shut down inside run() after a step reports TRUE again,
\* next to a loop that has never run and reports TRUE without any shutdown()
C17_Witness ==
    \E i, j \in Loops :
        /\ loop_pc[i] = "check" /\ ticks[i] >= 1
        /\ is_shutdown(i) /\ shutdown_req[i]
        /\ loop_pc[j] = "idle" /\ is_shutdown(j) /\ ~shutdown_req[j]

\* C18: the step in which _loop() raises takes the loop from inside the step
\* straight out of run() (no measurement, no sleep, no warning), has the
\* wrapper log the exception, and leaves the flag as it was; the flag of a
\* crashed loop becomes set only by a shutdown() call.
C18_CrashLeavesFlag ==
    /\ [][\A i \in Loops :
            /\ (loop_pc'[i] = "crashed" /\ loop_pc[i] # "crashed")
                  => /\ loop_pc[i] = "step"
                     /\ flag'[i] = flag[i]
                     /\ shutdown_req'[i] = shutdown_req[i]
                     /\ logged'[i] = logged[i] + 1
                     /\ warned'[i] = 0 /\ slept'[i] = 0 /\ sleep_req'[i] = 0
            /\ loop_pc[i] = "crashed"
                  => /\ loop_pc'[i] = "crashed"
                     /\ (flag'[i] # flag[i])
                           => (~flag[i] /\ (ExtShutdown(i)
                                            \/ CtxExitShutdown(i)))]_vars
    /\ [](\A i \in Loops :
            (loop_pc[i] = "crashed" /\ ~shutdown_req[i]) => ~is_shutdown(i))

\* a TimedRunnableLoop has crashed, nobody has called shutdown() on it, and
\* the context has gone on into the with body
C18_Witness ==
    \E i \in Loops :
        /\ kind[i] = "timed"
        /\ loop_pc[i] = "crashed"
        /\ ~is_shutdown(i) /\ ~shutdown_req[i]
        /\ ctx_pc = "body"

\* C20: the step in which __exit__ returns keeps the exception of the with
\* body (it is not swallowed), and shutdown() has been called on every loop
\* before that step; an exception of the body is never withdrawn.
C20_ExitNeverSuppresses ==
    /\ [][/\ (ctx_pc # "exited" /\ ctx_pc' = "exited")
                => /\ ctx_pc = "term"
                   /\ scope_exc' = scope_exc
                   /\ \A i \in Loops : shutdown_req[i]
          /\ scope_exc => scope_exc']_vars
    /\ [](ctx_pc = "term" => \A i \in Loops : shutdown_req[i])

\* __exit__ has returned after a body that raised, all loops having returned
\* from run() before; the exception is still there
C20_Witness ==
    /\ ctx_pc = "exited"
    /\ scope_exc
    /\ \A i \in Loops : loop_pc[i] = "returned" /\ shutdown_req[i]

\* C16: shutdown() can be called in every state of a loop and of the plant;
\* a call leaves the flag (the event) set and the loop (the plant) where it
\* is; and a call on a loop (a plant) that shutdown() has been called on and
\* whose flag (event) is set changes nothing at all, also when it is the call
\* made by __exit__.
C16_ShutdownIdempotent ==
    /\ [](\A i \in Loops :
            /\ ENABLED ExtShutdown(i)
            /\ (is_shutdown(i) /\ shutdown_req[i])
                  => ~ENABLED (ExtShutdown(i) /\ vars' # vars))
    /\ [](/\ ENABLED PlantShutdown
          /\ shutdown_event => ~ENABLED (PlantShutdown /\ vars' # vars))
    /\ [][\A i \in Loops :
            /\ ExtShutdown(i) =>
                  /\ is_shutdown(i)'
                  /\ loop_pc' = loop_pc /\ ticks' = ticks
                  /\ ~(ENABLED (ExtShutdown(i) /\ vars' # vars))'
            /\ (ctx_pc = "exit" /\ ctx_idx = i /\ ctx_pc' # "exit"
                  /\ is_shutdown(i) /\ shutdown_req[i])
                  => loopVars' = loopVars
            /\ (ctx_pc = "exit" /\ ctx_idx = i /\ ctx_idx' # i
                  /\ is_shutdown(i) /\ shutdown_req[i])
                  => loopVars' = loopVars]_vars
    /\ [][(shutdown_event' /\ ~shutdown_event /\ ~plant_failed') =>
            /\ plant_pc' = plant_pc /\ attempts' = attempts
            /\ cb_idx' = cb_idx /\ step_cnt' = step_cnt
            /\ ~(ENABLED (PlantShutdown /\ vars' # vars))']_vars

\* every loop has returned from run() after a shutdown() call and __exit__
\* has called shutdown() on each of them once more; the plant has been shut
\* down in the middle of a tick and is still in that tick
C16_Witness ==
    /\ ctx_pc = "term"
    /\ \A i \in Loops :
          loop_pc[i] = "returned" /\ is_shutdown(i) /\ shutdown_req[i]
    /\ shutdown_event /\ ~plant_failed
    /\ plant_pc = "step" /\ cb_idx = 3

\* C14: whatever the order of delivery, a delivered command is adopted if
\* and only if its sequence number is strictly greater than the last accepted
\* one; the accepted sequence numbers are strictly increasing; what actuate()
\* applies are the values of the accepted command with the highest sequence
\* number (the first delivered command that carries the maximum); and the
\* deliveries 5, 3, 7, 6 are accepted as 5, 7.
C14_StaleCommandRejection ==
    /\ [](/\ \A k \in 1..(Len(accepted) - 1) : accepted[k] < accepted[k + 1]
          /\ delivered = <<5, 3, 7, 6>> => accepted = <<5, 7>>
          /\ accepted # <<>> => last_seq = accepted[Len(accepted)]
          /\ accepted = <<>> => delivered = <<>>)
    /\ [][Len(delivered') > Len(delivered) =>
            LET s == delivered'[Len(delivered')]
                newer == \A k \in 1..Len(accepted) : s > accepted[k]
            IN  /\ newer => accepted' = Append(accepted, s)
                /\ ~newer => accepted' = accepted]_vars
    /\ [][applied' # applied =>
            /\ delivered[applied'] = accepted[Len(accepted)]
            /\ \A k \in 1..Len(delivered) : delivered[k] <= delivered[applied']
            /\ \A k \in 1..(applied' - 1) :
                  delivered[k] < delivered[applied']]_vars

\* the commands 5, 3, 7, 6 have been delivered in that order and actuate()
\* has applied the values of the third
C14_Witness ==
    /\ delivered = <<5, 3, 7, 6>>
    /\ accepted = <<5, 7>>
    /\ applied = 3

\* C15: the force, a non-persistent actuator variable, has its default value
\* in every control step that began without a write to it during the step
\* before, and that is what advance() then reads; otherwise it has the value
\* last written; the position, a persistent sensor variable, has the value
\* last written to it however many control steps have begun since.
C15_PersistenceAcrossTicks ==
    /\ [](/\ since_write >= 2 => force = ForceDefault
          /\ since_write <= 1 => force = force_last
          /\ position = pos_last)
    /\ [][(advanced' /\ ~advanced) =>
            read_force' = (IF since_write >= 2 THEN ForceDefault
                           ELSE force_last)]_vars
    /\ [][sv_tick' # sv_tick =>
            /\ position' = position
            /\ force' = (IF since_write >= 1 THEN ForceDefault ELSE force)]_vars

\* the force was written a nonzero value and reads as its default two steps
\* later; the position still has the nonzero value written two steps ago
C15_Witness ==
    /\ force_last # ForceDefault
    /\ since_write >= 2
    /\ force = ForceDefault
    /\ pos_idle >= 2
    /\ position # SensorDefault
    /\ position = pos_last

\* C21: the sleep requested after a successful tick is dt less the time the
\* tick took, and zero when the tick took dt or longer, never negative; the
\* step that ends a tick, overrun or not, sets neither the shutdown event nor
\* the failure mark, and the sleep is followed by the loop test of run(),
\* which starts the next tick unless shutdown() has been called.
C21_NoNegativeSleep ==
    /\ [](/\ p_sleep >= 0
          /\ plant_pc = "sleeping" =>
                /\ p_elapsed >= plant_dt => p_sleep = 0
                /\ p_elapsed < plant_dt => p_sleep = plant_dt - p_elapsed
                /\ ENABLED PlantWake)
    /\ [][/\ (plant_pc = "step" /\ plant_pc' = "sleeping") =>
                /\ shutdown_event' = shutdown_event
                /\ plant_failed' = plant_failed
                /\ step_cnt' = step_cnt + 1
          /\ (plant_pc = "sleeping" /\ plant_pc' # "sleeping") =>
                /\ plant_pc' = "check"
                /\ ~plant_failed'
                /\ (~shutdown_event /\ attempts < MaxPlantTicks) =>
                      (ENABLED (PlantCheck /\ plant_pc' = "step"))']_vars

\* a tick took longer than dt, no sleep was asked for, and with no shutdown()
\* and no failure the next tick is under way
C21_Witness ==
    /\ plant_pc = "step"
    /\ attempts >= 2
    /\ p_elapsed > plant_dt
    /\ p_sleep = 0
    /\ ~shutdown_event /\ ~plant_failed

====
